---------------------------- MODULE Spec2Model ----------------------------
(***************************************************************************)
(* Audio-reactive LED control: the threaded AudioVisualizer of main.py    *)
(* (audio callback thread, LED update thread, main thread) and the script *)
(* of light.py (audio callback renders directly, main block blanks in a   *)
(* finally clause).  Pure helpers (map_brightness, calculate_color) are   *)
(* operators; they are also exercised alone by MapSpec and ColorSpec.     *)
(*                                                                         *)
(* Colours are the argument triples handed to Color(a, b, c).  A chunk is *)
(* a record: id (delivery number), silent (np.any is false), rms0 (the RMS *)
(* evaluates to zero) and db (the unclamped 20*log10(rms/p_ref) of the    *)
(* samples, an integer here).                                              *)
(* Python threads interleave between statements; every statement that     *)
(* touches shared state is a separate action.                             *)
(***************************************************************************)
EXTENDS Integers, Sequences, FiniteSets, TLC

VARIABLES
    variant,      \* "class" (main.py), "script" (light.py), "map", "color", "db"
    min_db,       \* self.min_db
    max_db,       \* self.max_db
    SENSITIVITY,  \* light.py SENSITIVITY
    running,      \* self.running
    audio_event,  \* self.audio_event (threading.Event flag)
    audio_data,   \* self.audio_data (the single chunk slot)
    strip,        \* pixel buffer of the strip object (setPixelColor target)
    shown,        \* frame last pushed to the hardware by show()
    stream,       \* "none", "open", "active", "closed"
    mainPc,       \* position of the main thread
    mainI,        \* loop index of the blanking loop
    cbPc,         \* position of the audio callback thread
    cbI,          \* loop index of set_leds (script)
    led_colors,   \* led_colors list of the script callback
    ledPc,        \* position of the LED update thread
    ledI,         \* loop index of update_leds
    ledChunk,     \* the chunk update_leds read from the slot (local)
    brightness,   \* local of update_leds
    ledError,     \* exception that ended the LED thread, "none" otherwise
    nextId,       \* number of the next chunk the audio library will deliver
    status,       \* history: ids of chunks delivered with a non-empty status
    renders,      \* history: number of show() calls of frames built from chunk id
    lastSink,     \* history: thread and kind of the most recent sink call
    woke,         \* history: audio_event.wait() has returned at least once
    early,        \* history: chunks whose callback completed before the first wake
    cycle,        \* history: completed sink calls of the current render cycle
    wakeRunning,  \* history: self.running when audio_event.wait() last returned
    pureIn,       \* inputs of the pure-function specifications
    pureOut       \* results of the pure-function specifications

cfgVars  == <<variant, min_db, max_db, SENSITIVITY>>
pipeVars == <<running, audio_event, audio_data, strip, shown, stream,
              mainPc, mainI, cbPc, cbI, led_colors, ledPc, ledI, ledChunk,
              brightness, ledError, nextId, status, renders, lastSink,
              woke, early, cycle, wakeRunning>>
pureVars == <<pureIn, pureOut>>
vars     == <<cfgVars, pipeVars, pureVars>>

---------------------------------------------------------------------------
(* Bounds of the model *)
NumPixels == 2      \* strip.numPixels() / LED_COUNT (300 and 30 in the programs)
MaxChunks == 3      \* chunks the audio library delivers in one run
MaxDbCfg == 4       \* MapSpec: min_db, max_db range over 0..MaxDbCfg
MaxThird == 4       \* ColorSpec: SENSITIVITY ranges over 3*(1..MaxThird)
MaxAmplitude == 13  \* ColorSpec: amplitude ranges over 0..MaxAmplitude
MaxExp == 5         \* DbSpec: amplitudes p_ref * 10^e with e in -1..MaxExp

(* Program constants *)
MainMinDb == 40         \* main.py min_db
MainMaxDb == 90         \* main.py max_db
ScriptSensitivity == 100
FullBrightness == 255

Pixels   == 1..NumPixels
ChunkIds == 1..MaxChunks
Black    == <<0, 0, 0>>
AllBlack(f) == \A p \in Pixels : f[p] = Black
BlankFrame  == [p \in Pixels |-> Black]

(* The empty list self.audio_data starts as: len(...) == 0. *)
NoChunk == [id |-> 0, silent |-> TRUE, rms0 |-> TRUE, db |-> 0]
(* Contents of the chunks the class variant is fed: an all-zero chunk      *)
(* (brightness 0) and a chunk of 65 dB (brightness 127).                   *)
ChunkContents == {[silent |-> TRUE, rms0 |-> TRUE, db |-> 0],
                  [silent |-> FALSE, rms0 |-> FALSE, db |-> 65]}
(* RMS amplitudes the script variant is fed (float32 samples lie in [-1,1]) *)
ScriptAmplitudes == {0, 1}

NoSink == [by |-> "none", op |-> "none"]
Sink(t, o) == [by |-> t, op |-> o]
(* one completed call of setPixelColor(i, color) or show() *)
SetPixelCall(i, color) == [op |-> "setPixelColor", i |-> i, color |-> color]
ShowCall == [op |-> "show", i |-> NumPixels, color |-> Black]

---------------------------------------------------------------------------
(* Pure helpers *)

(* int(a / b) of Python for integers a, b with b # 0: truncation toward 0 *)
TruncDiv(a, b) ==
    LET q == (IF a < 0 THEN -a ELSE a) \div (IF b < 0 THEN -b ELSE b)
    IN  IF (a < 0) = (b < 0) \/ a = 0 THEN q ELSE -q

Max(a, b) == IF b > a THEN b ELSE a
Min(a, b) == IF b < a THEN b ELSE a

get_decibel_level_unclamped(chunk) ==
    IF ~chunk.silent
    THEN IF ~chunk.rms0 THEN chunk.db ELSE min_db
    ELSE min_db

get_decibel_level_min(chunk) ==
    IF ~chunk.silent
    THEN IF ~chunk.rms0 THEN Min(min_db, chunk.db) ELSE min_db
    ELSE min_db

(* main.py get_decibel_level: np.any, rms > 0, max(self.min_db, db) *)
get_decibel_level(chunk) ==
    IF ~chunk.silent
    THEN IF ~chunk.rms0 THEN Max(min_db, chunk.db) ELSE min_db
    ELSE min_db

(* main.py map_brightness raises ZeroDivisionError *)
map_brightness_raises(db) == max_db - min_db = 0

map_brightness_unclamped(db) ==
    TruncDiv((db - min_db) * FullBrightness, max_db - min_db)

(* main.py map_brightness, for max_db # min_db *)
map_brightness(db) ==
    LET clamped_db == Max(min_db, Min(max_db, db))
    IN  TruncDiv((clamped_db - min_db) * FullBrightness, max_db - min_db)

calculate_color_no_fade(amplitude) ==
    IF 3 * amplitude < SENSITIVITY
    THEN LET g == TruncDiv(3 * FullBrightness * amplitude, SENSITIVITY)
         IN  <<0, g, FullBrightness - g>>
    ELSE IF 3 * amplitude < 2 * SENSITIVITY
    THEN <<TruncDiv(FullBrightness * (3 * amplitude - SENSITIVITY), SENSITIVITY),
           FullBrightness, 0>>
    ELSE <<FullBrightness,
           TruncDiv(FullBrightness * (3 * amplitude - 2 * SENSITIVITY),
                    SENSITIVITY), 0>>

(* light.py calculate_color.  x / (SENSITIVITY / 3) is 3 * x / SENSITIVITY; *)
(* on the inputs used here (SENSITIVITY a multiple of 3 with integer        *)
(* amplitudes, and SENSITIVITY = 100 with amplitudes 0 and 1) the floating  *)
(* point code and this integer form give the same triples.                  *)
calculate_color(amplitude) ==
    IF 3 * amplitude < SENSITIVITY
    THEN LET g == TruncDiv(3 * FullBrightness * amplitude, SENSITIVITY)
         IN  <<0, g, FullBrightness - g>>
    ELSE IF 3 * amplitude < 2 * SENSITIVITY
    THEN <<TruncDiv(FullBrightness * (3 * amplitude - SENSITIVITY), SENSITIVITY),
           FullBrightness, 0>>
    ELSE <<FullBrightness,
           FullBrightness - TruncDiv(FullBrightness * (3 * amplitude - 2 * SENSITIVITY),
                                     SENSITIVITY), 0>>

(* self.audio_data = indata.copy(): the new chunk replaces the slot *)
StoreChunkKeepOld(slot, chunk) == IF slot.id = 0 THEN chunk ELSE slot

StoreChunk(slot, chunk) == chunk

(* self.audio_event.set() *)
EventSetForgotten(ev) == ev

EventSet(ev) == TRUE

---------------------------------------------------------------------------
(* Initial states *)

PipeInit ==
    /\ running = TRUE
    /\ audio_event = FALSE
    /\ audio_data = NoChunk
    /\ strip = BlankFrame
    /\ shown = BlankFrame
    /\ stream = "none"
    /\ mainI = 0
    /\ cbPc = "idle"
    /\ cbI = 0
    /\ led_colors = <<>>
    /\ ledPc = "none"
    /\ ledI = 0
    /\ ledChunk = NoChunk
    /\ brightness = 0
    /\ ledError = "none"
    /\ nextId = 1
    /\ status = {}
    /\ renders = [c \in ChunkIds |-> 0]
    /\ lastSink = NoSink
    /\ woke = FALSE
    /\ early = {}
    /\ cycle = <<>>
    /\ wakeRunning = TRUE

PureIdle ==
    /\ pureIn = <<>>
    /\ pureOut = <<>>

(* main.py: AudioVisualizer(...) built by the main block, run() has        *)
(* created the strip and is about to enter its try block.                  *)
InitClass ==
    /\ variant = "class"
    /\ min_db = MainMinDb
    /\ max_db = MainMaxDb
    /\ SENSITIVITY = 200
    /\ PipeInit
    /\ mainPc = "open"
    /\ PureIdle

(* light.py: the strip is initialised, the main block is about to open    *)
(* the input stream.                                                       *)
InitScript ==
    /\ variant = "script"
    /\ min_db = 0
    /\ max_db = 0
    /\ SENSITIVITY = ScriptSensitivity
    /\ PipeInit
    /\ mainPc = "s_open"
    /\ PureIdle

Init == InitClass \/ InitScript

ProcessAlive == mainPc \notin {"returned", "raised"}

---------------------------------------------------------------------------
(* main.py: audio callback thread *)

(* lines 101-103: non-empty status, print and return *)
CallbackStatusStores ==
    /\ variant = "class" /\ ProcessAlive
    /\ stream = "active" /\ cbPc = "idle" /\ nextId <= MaxChunks
    /\ \E c \in ChunkContents :
         audio_data' = [id |-> nextId, silent |-> c.silent, rms0 |-> c.rms0,
                           db |-> c.db]
    /\ status' = status \cup {nextId}
    /\ nextId' = nextId + 1
    /\ audio_event' = TRUE
    /\ UNCHANGED <<cfgVars, pureVars, cycle, wakeRunning, running, strip, shown, stream,
                   mainPc, mainI, cbPc, cbI, led_colors, ledPc, ledI, ledChunk,
                   brightness, ledError, renders, lastSink, woke, early>>

CallbackStatus ==
    /\ variant = "class" /\ ProcessAlive
    /\ stream = "active" /\ cbPc = "idle" /\ nextId <= MaxChunks
    /\ status' = status \cup {nextId}
    /\ nextId' = nextId + 1
    /\ UNCHANGED <<cfgVars, pureVars, cycle, wakeRunning, running, audio_event, audio_data, strip,
                   shown, stream, mainPc, mainI, cbPc, cbI, led_colors, ledPc,
                   ledI, ledChunk, brightness, ledError, renders, lastSink,
                   woke, early>>

(* line 105: self.audio_data = indata.copy() *)
CallbackStore ==
    /\ variant = "class" /\ ProcessAlive
    /\ stream = "active" /\ cbPc = "idle" /\ nextId <= MaxChunks
    /\ \E c \in ChunkContents :
         audio_data' = StoreChunk(audio_data,
                          [id |-> nextId, silent |-> c.silent, rms0 |-> c.rms0,
                           db |-> c.db])
    /\ nextId' = nextId + 1
    /\ cbPc' = "set"
    /\ UNCHANGED <<cfgVars, pureVars, cycle, wakeRunning, running, audio_event, strip, shown,
                   stream, mainPc, mainI, cbI, led_colors, ledPc, ledI,
                   ledChunk, brightness, ledError, status, renders, lastSink,
                   woke, early>>

(* line 106: self.audio_event.set() *)
CallbackSet ==
    /\ variant = "class" /\ ProcessAlive
    /\ cbPc = "set"
    /\ audio_event' = EventSet(audio_event)
    /\ cbPc' = "idle"
    /\ early' = IF woke THEN early ELSE early \cup {nextId - 1}
    /\ UNCHANGED <<cfgVars, pureVars, cycle, wakeRunning, running, audio_data, strip, shown,
                   stream, mainPc, mainI, cbI, led_colors, ledPc, ledI,
                   ledChunk, brightness, ledError, nextId, status, renders,
                   lastSink, woke>>

---------------------------------------------------------------------------
(* main.py: LED update thread, update_leds *)

ledRest == <<cfgVars, pureVars, running, stream, mainPc, mainI, cbPc, cbI,
             led_colors, nextId, status, early>>

(* line 112: while self.running *)
LedWhile ==
    /\ variant = "class" /\ ProcessAlive
    /\ ledPc = "while"
    /\ ledPc' = IF running THEN "wait" ELSE "done"
    /\ UNCHANGED <<ledRest, cycle, wakeRunning, audio_event, audio_data, strip, shown, ledI,
                   ledChunk, brightness, ledError, renders, lastSink, woke>>

(* line 113: self.audio_event.wait() returns once the flag is set *)
LedWait ==
    /\ variant = "class" /\ ProcessAlive
    /\ ledPc = "wait"
    /\ audio_event
    /\ ledPc' = "clear"
    /\ woke' = TRUE
    /\ wakeRunning' = running
    /\ UNCHANGED <<ledRest, cycle, audio_event, audio_data, strip, shown, ledI,
                   ledChunk, brightness, ledError, renders, lastSink>>

(* line 114: self.audio_event.clear() *)
LedClear ==
    /\ variant = "class" /\ ProcessAlive
    /\ ledPc = "clear"
    /\ audio_event' = FALSE
    /\ ledPc' = "check"
    /\ UNCHANGED <<ledRest, cycle, wakeRunning, audio_data, strip, shown, ledI, ledChunk,
                   brightness, ledError, renders, lastSink, woke>>

LedCheckSkipped ==
    /\ variant = "class" /\ ProcessAlive
    /\ ledPc = "check"
    /\ ledPc' = "len"
    /\ UNCHANGED <<ledRest, cycle, wakeRunning, audio_event, audio_data, strip,
                   shown, ledI, ledChunk, brightness, ledError, renders,
                   lastSink, woke>>

(* lines 115-116: if not self.running: break *)
LedCheck ==
    /\ variant = "class" /\ ProcessAlive
    /\ ledPc = "check"
    /\ ledPc' = IF running THEN "len" ELSE "done"
    /\ UNCHANGED <<ledRest, cycle, wakeRunning, audio_event, audio_data, strip, shown, ledI,
                   ledChunk, brightness, ledError, renders, lastSink, woke>>

(* line 118: if len(self.audio_data) > 0 *)
LedLen ==
    /\ variant = "class" /\ ProcessAlive
    /\ ledPc = "len"
    /\ ledPc' = IF audio_data.id # 0 THEN "read" ELSE "while"
    /\ UNCHANGED <<ledRest, cycle, wakeRunning, audio_event, audio_data, strip, shown, ledI,
                   ledChunk, brightness, ledError, renders, lastSink, woke>>

LedReadQueued ==
    /\ variant = "class" /\ ProcessAlive
    /\ ledPc = "read"
    /\ LET waiting == {c \in ChunkIds : c > ledChunk.id /\ c < audio_data.id
                                          /\ c \notin status}
       IN  ledChunk' = IF waiting = {} THEN audio_data
                       ELSE [audio_data EXCEPT
                                !.id = CHOOSE c \in waiting :
                                           \A d \in waiting : c <= d]
    /\ cycle' = <<>>
    /\ LET db == get_decibel_level(audio_data)
       IN  IF map_brightness_raises(db)
           THEN /\ ledPc' = "raised"
                /\ ledError' = "ZeroDivisionError"
                /\ UNCHANGED <<brightness, ledI>>
           ELSE /\ brightness' = map_brightness(db)
                /\ ledI' = 0
                /\ ledPc' = "pix"
                /\ UNCHANGED ledError
    /\ UNCHANGED <<ledRest, wakeRunning, audio_event, audio_data, strip, shown, renders,
                   lastSink, woke>>

(* lines 119-120: read the slot, get_decibel_level, map_brightness *)
LedRead ==
    /\ variant = "class" /\ ProcessAlive
    /\ ledPc = "read"
    /\ ledChunk' = audio_data
    /\ cycle' = <<>>
    /\ LET db == get_decibel_level(audio_data)
       IN  IF map_brightness_raises(db)
           THEN /\ ledPc' = "raised"
                /\ ledError' = "ZeroDivisionError"
                /\ UNCHANGED <<brightness, ledI>>
           ELSE /\ brightness' = map_brightness(db)
                /\ ledI' = 0
                /\ ledPc' = "pix"
                /\ UNCHANGED ledError
    /\ UNCHANGED <<ledRest, wakeRunning, audio_event, audio_data, strip, shown, renders,
                   lastSink, woke>>

(* lines 122-123: self.strip.setPixelColor(i, ws.Color(0, brightness, 0)) *)
LedSetPixel ==
    /\ variant = "class" /\ ProcessAlive
    /\ ledPc = "pix" /\ ledI < NumPixels
    /\ strip' = [strip EXCEPT ![ledI + 1] = <<0, brightness, 0>>]
    /\ ledI' = ledI + 1
    /\ cycle' = Append(cycle, SetPixelCall(ledI, <<0, brightness, 0>>))
    /\ lastSink' = Sink("led", "setPixelColor")
    /\ UNCHANGED <<ledRest, wakeRunning, audio_event, audio_data, shown, ledPc, ledChunk,
                   brightness, ledError, renders, woke>>

LedShowInsideLoop ==
    /\ variant = "class" /\ ProcessAlive
    /\ ledPc = "pix" /\ ledI >= 1
    /\ shown' = strip
    /\ cycle' = Append(cycle, ShowCall)
    /\ renders' = [renders EXCEPT ![ledChunk.id] = @ + 1]
    /\ lastSink' = Sink("led", "show")
    /\ ledPc' = "while"
    /\ UNCHANGED <<ledRest, wakeRunning, audio_event, audio_data, strip, ledI,
                   ledChunk, brightness, ledError, woke>>

(* line 124: self.strip.show(), then back to the loop head *)
LedShow ==
    /\ variant = "class" /\ ProcessAlive
    /\ ledPc = "pix" /\ ledI = NumPixels
    /\ shown' = strip
    /\ cycle' = Append(cycle, ShowCall)
    /\ renders' = [renders EXCEPT ![ledChunk.id] = @ + 1]
    /\ lastSink' = Sink("led", "show")
    /\ ledPc' = "while"
    /\ UNCHANGED <<ledRest, wakeRunning, audio_event, audio_data, strip, ledI, ledChunk,
                   brightness, ledError, woke>>

(* lines 122-124: a sink call raises; update_leds has no handler, the     *)
(* exception leaves the function and the thread ends                       *)
LedSinkFail ==
    /\ variant = "class" /\ ProcessAlive
    /\ ledPc = "pix"
    /\ ledPc' = "raised"
    /\ ledError' = "SinkError"
    /\ lastSink' = Sink("led", IF ledI < NumPixels THEN "setPixelColor" ELSE "show")
    /\ UNCHANGED <<ledRest, cycle, wakeRunning, audio_event, audio_data, strip, shown, ledI,
                   ledChunk, brightness, renders, woke>>

LedStep == LedWhile \/ LedWait \/ LedClear \/ LedCheck \/ LedLen \/ LedRead
              \/ LedSetPixel \/ LedShow

---------------------------------------------------------------------------
(* main.py: main thread, run() from its try block on *)

mainRest == <<cfgVars, pureVars, cycle, wakeRunning, audio_data, cbPc, cbI, led_colors, ledI,
              ledChunk, brightness, ledError, nextId, status, renders, woke,
              early>>

InTry == mainPc \in {"open", "start", "thread", "sleep"}

(* lines 138-139: self.stream = sd.InputStream(...) *)
MainOpen ==
    /\ variant = "class" /\ mainPc = "open"
    /\ stream' = "open"
    /\ mainPc' = "start"
    /\ UNCHANGED <<mainRest, running, audio_event, strip, shown, mainI, ledPc,
                   lastSink>>

(* line 140: self.stream.start() *)
MainStreamStart ==
    /\ variant = "class" /\ mainPc = "start"
    /\ stream' = "active"
    /\ mainPc' = "thread"
    /\ UNCHANGED <<mainRest, running, audio_event, strip, shown, mainI, ledPc,
                   lastSink>>

(* lines 143-149: start the LED thread, then sleep forever *)
MainThreadStart ==
    /\ variant = "class" /\ mainPc = "thread"
    /\ ledPc' = "while"
    /\ mainPc' = "sleep"
    /\ UNCHANGED <<mainRest, running, audio_event, strip, shown, stream, mainI,
                   lastSink>>

(* lines 150-151: an Exception raised by opening or starting the stream   *)
(* or by starting the thread is printed, and run() returns                 *)
MainException ==
    /\ variant = "class" /\ mainPc \in {"open", "start", "thread"}
    /\ mainPc' = "returned"
    /\ UNCHANGED <<mainRest, running, audio_event, strip, shown, stream, mainI,
                   ledPc, lastSink>>

(* line 152: KeyboardInterrupt anywhere in the try block *)
MainInterrupt ==
    /\ variant = "class" /\ InTry
    /\ mainPc' = "stop154"
    /\ UNCHANGED <<mainRest, running, audio_event, strip, shown, stream, mainI,
                   ledPc, lastSink>>

(* line 154: self.running = False *)
MainStopFlag ==
    /\ variant = "class" /\ mainPc = "stop154"
    /\ running' = FALSE
    /\ mainPc' = "stop155"
    /\ UNCHANGED <<mainRest, audio_event, strip, shown, stream, mainI, ledPc,
                   lastSink>>

MainStopSetSkipped ==
    /\ variant = "class" /\ mainPc = "stop155"
    /\ mainPc' = "stop156"
    /\ UNCHANGED <<mainRest, running, audio_event, strip, shown, stream, mainI,
                   ledPc, lastSink>>

(* line 155: self.audio_event.set() *)
MainStopSet ==
    /\ variant = "class" /\ mainPc = "stop155"
    /\ audio_event' = TRUE
    /\ mainPc' = "stop156"
    /\ UNCHANGED <<mainRest, running, strip, shown, stream, mainI, ledPc,
                   lastSink>>

(* lines 156-158: stream.stop() returns once a callback in progress has    *)
(* finished; stream.close()                                                *)
MainStopStream ==
    /\ variant = "class" /\ mainPc = "stop156"
    /\ cbPc = "idle"
    /\ stream' = IF stream = "none" THEN "none" ELSE "closed"
    /\ mainI' = 0
    /\ mainPc' = "blank"
    /\ UNCHANGED <<mainRest, running, audio_event, strip, shown, ledPc,
                   lastSink>>

(* lines 160-161: self.strip.setPixelColor(i, ws.Color(0, 0, 0)) *)
MainBlankPixel ==
    /\ variant = "class" /\ mainPc = "blank" /\ mainI < NumPixels
    /\ strip' = [strip EXCEPT ![mainI + 1] = Black]
    /\ mainI' = mainI + 1
    /\ lastSink' = Sink("main", "setPixelColor")
    /\ UNCHANGED <<mainRest, running, audio_event, shown, stream, mainPc,
                   ledPc>>

(* line 162: self.strip.show() *)
MainBlankShow ==
    /\ variant = "class" /\ mainPc = "blank" /\ mainI = NumPixels
    /\ shown' = strip
    /\ lastSink' = Sink("main", "show")
    /\ mainPc' = "exiting"
    /\ UNCHANGED <<mainRest, running, audio_event, strip, stream, mainI,
                   ledPc>>

(* lines 160-162: a sink call of the blanking raises inside the handler;   *)
(* the exception leaves run()                                              *)
MainBlankFail ==
    /\ variant = "class" /\ mainPc = "blank"
    /\ lastSink' = Sink("main", IF mainI < NumPixels THEN "setPixelColor" ELSE "show")
    /\ mainPc' = "raised"
    /\ UNCHANGED <<mainRest, running, audio_event, strip, shown, stream, mainI,
                   ledPc>>

(* line 163: print("Exiting..."), run() returns and the process ends *)
MainReturn ==
    /\ variant = "class" /\ mainPc = "exiting"
    /\ mainPc' = "returned"
    /\ UNCHANGED <<mainRest, running, audio_event, strip, shown, stream, mainI,
                   ledPc, lastSink>>

MainStep == MainOpen \/ MainStreamStart \/ MainThreadStart \/ MainStopFlag
               \/ MainStopSet \/ MainStopStream \/ MainBlankPixel
               \/ MainBlankShow \/ MainReturn

ClassNext ==
    \/ CallbackStatus \/ CallbackStore \/ CallbackSet
    \/ LedStep \/ LedSinkFail
    \/ MainStep \/ MainException \/ MainInterrupt \/ MainBlankFail

---------------------------------------------------------------------------
(* light.py: audio_callback and set_leds, run on the audio callback thread *)

scriptCbRest == <<cfgVars, pureVars, wakeRunning, running, audio_event, audio_data, stream,
                  mainPc, mainI, ledPc, ledI, ledChunk, brightness, ledError,
                  woke, early>>

(* lines 149-151: non-empty status, print and return *)
ScriptCallbackStatus ==
    /\ variant = "script" /\ ProcessAlive
    /\ stream = "active" /\ cbPc = "idle" /\ nextId <= MaxChunks
    /\ status' = status \cup {nextId}
    /\ nextId' = nextId + 1
    /\ UNCHANGED <<scriptCbRest, cycle, strip, shown, cbPc, cbI, led_colors, renders,
                   lastSink>>

(* lines 155-164: RMS amplitude, LED_COUNT colours, call set_leds *)
ScriptCallback ==
    /\ variant = "script" /\ ProcessAlive
    /\ stream = "active" /\ cbPc = "idle" /\ nextId <= MaxChunks
    /\ \E a \in ScriptAmplitudes :
         led_colors' = [p \in Pixels |-> calculate_color(a)]
    /\ nextId' = nextId + 1
    /\ cbI' = 0
    /\ cycle' = <<>>
    /\ cbPc' = "s_pix"
    /\ UNCHANGED <<scriptCbRest, strip, shown, status, renders, lastSink>>

(* lines 127-130: r, g, b = color; setPixelColor(i, Color(g, r, b)) *)
ScriptSetPixel ==
    /\ variant = "script" /\ ProcessAlive
    /\ cbPc = "s_pix" /\ cbI < Len(led_colors)
    /\ LET color == led_colors[cbI + 1]
       IN  /\ strip' = [strip EXCEPT ![cbI + 1] = <<color[2], color[1], color[3]>>]
           /\ cycle' = Append(cycle, SetPixelCall(cbI, <<color[2], color[1], color[3]>>))
    /\ cbI' = cbI + 1
    /\ lastSink' = Sink("callback", "setPixelColor")
    /\ UNCHANGED <<scriptCbRest, shown, cbPc, led_colors, nextId, status,
                   renders>>

(* line 131: led_strip.show(); the callback returns *)
ScriptShow ==
    /\ variant = "script" /\ ProcessAlive
    /\ cbPc = "s_pix" /\ cbI = Len(led_colors)
    /\ shown' = strip
    /\ cycle' = Append(cycle, ShowCall)
    /\ renders' = [renders EXCEPT ![nextId - 1] = @ + 1]
    /\ lastSink' = Sink("callback", "show")
    /\ cbPc' = "idle"
    /\ UNCHANGED <<scriptCbRest, strip, cbI, led_colors, nextId, status>>

---------------------------------------------------------------------------
(* light.py: main block from the with statement on *)

scriptMainRest == <<cfgVars, pureVars, cycle, wakeRunning, running, audio_event, audio_data, cbPc,
                    cbI, led_colors, ledPc, ledI, ledChunk, brightness,
                    ledError, nextId, status, renders, woke, early>>

(* lines 183-192: the stream is opened and started by the with statement *)
ScriptOpen ==
    /\ variant = "script" /\ mainPc = "s_open"
    /\ stream' = "active"
    /\ mainPc' = "s_sleep"
    /\ UNCHANGED <<scriptMainRest, strip, shown, mainI, lastSink>>

(* lines 183, 195-197: opening the stream raises; except, then finally *)
ScriptOpenFail ==
    /\ variant = "script" /\ mainPc = "s_open"
    /\ mainI' = 0
    /\ mainPc' = "s_blank"
    /\ UNCHANGED <<scriptMainRest, strip, shown, stream, lastSink>>

(* lines 191-194: KeyboardInterrupt in the sleep loop; leaving the with    *)
(* block closes the stream, which returns once a callback in progress has  *)
(* finished; then finally                                                  *)
ScriptInterrupt ==
    /\ variant = "script" /\ mainPc = "s_sleep"
    /\ cbPc = "idle"
    /\ stream' = "closed"
    /\ mainI' = 0
    /\ mainPc' = "s_blank"
    /\ UNCHANGED <<scriptMainRest, strip, shown, lastSink>>

(* lines 200-201: led_strip.setPixelColor(i, Color(0, 0, 0)) *)
ScriptBlankPixel ==
    /\ variant = "script" /\ mainPc = "s_blank" /\ mainI < NumPixels
    /\ strip' = [strip EXCEPT ![mainI + 1] = Black]
    /\ mainI' = mainI + 1
    /\ lastSink' = Sink("main", "setPixelColor")
    /\ UNCHANGED <<scriptMainRest, shown, stream, mainPc>>

(* lines 202-206: led_strip.show(), print, the program ends *)
ScriptBlankShow ==
    /\ variant = "script" /\ mainPc = "s_blank" /\ mainI = NumPixels
    /\ shown' = strip
    /\ lastSink' = Sink("main", "show")
    /\ mainPc' = "returned"
    /\ UNCHANGED <<scriptMainRest, strip, stream, mainI>>

ScriptNext ==
    \/ ScriptCallbackStatus \/ ScriptCallback \/ ScriptSetPixel \/ ScriptShow
    \/ ScriptOpen \/ ScriptOpenFail \/ ScriptInterrupt
    \/ ScriptBlankPixel \/ ScriptBlankShow

---------------------------------------------------------------------------
(* The two programs *)

Next == ClassNext \/ ScriptNext

Spec == Init /\ [][Next]_vars

(* Threads that can run are eventually run: the LED thread, the callback   *)
(* thread between its two statements, the main thread between statements.  *)
(* Exceptions and Ctrl+C are not forced.                                   *)
LiveSpec == Spec /\ WF_vars(LedStep) /\ WF_vars(CallbackSet) /\ WF_vars(MainStep)

(* Only the LED thread is required to run when it can; the main thread may *)
(* take any time between its statements.                                   *)
LedLiveSpec == Spec /\ WF_vars(LedStep)

---------------------------------------------------------------------------
(* map_brightness alone: an AudioVisualizer is constructed with arbitrary  *)
(* min_db, max_db, then map_brightness is applied to two loudness values.  *)

MapInit ==
    /\ variant = "map"
    /\ min_db = 0
    /\ max_db = 0
    /\ SENSITIVITY = 200
    /\ PipeInit
    /\ mainPc = "new"
    /\ pureIn \in [min_db : 0..MaxDbCfg, max_db : 0..MaxDbCfg,
                   x : -1..(MaxDbCfg + 1), y : -1..(MaxDbCfg + 1)]
    /\ pureOut = <<>>

(* main.py __init__, lines 45-46: the arguments are stored as given *)
MapConstruct ==
    /\ variant = "map" /\ mainPc = "new"
    /\ min_db' = pureIn.min_db
    /\ max_db' = pureIn.max_db
    /\ mainPc' = "constructed"
    /\ UNCHANGED <<variant, SENSITIVITY, pureVars, cycle, wakeRunning,
                   running, audio_event,
                   audio_data, strip, shown, stream, mainI, cbPc, cbI,
                   led_colors, ledPc, ledI, ledChunk, brightness, ledError,
                   nextId, status, renders, lastSink, woke, early>>

(* main.py map_brightness called (as update_leds does at line 120) *)
MapApply ==
    /\ variant = "map" /\ mainPc = "constructed"
    /\ IF map_brightness_raises(pureIn.x)
       THEN /\ mainPc' = "ZeroDivisionError"
            /\ UNCHANGED pureOut
       ELSE /\ mainPc' = "mapped"
            /\ pureOut' = <<map_brightness(pureIn.x), map_brightness(pureIn.y)>>
    /\ UNCHANGED <<cfgVars, pureIn, cycle, wakeRunning, running, audio_event, audio_data, strip,
                   shown, stream, mainI, cbPc, cbI, led_colors, ledPc, ledI,
                   ledChunk, brightness, ledError, nextId, status, renders,
                   lastSink, woke, early>>

MapNext == MapConstruct \/ MapApply

MapSpec == MapInit /\ [][MapNext]_vars

---------------------------------------------------------------------------
(* calculate_color alone *)

ColorInit ==
    /\ variant = "color"
    /\ min_db = 0
    /\ max_db = 0
    /\ SENSITIVITY \in {3 * k : k \in 1..MaxThird}
    /\ PipeInit
    /\ mainPc = "in"
    /\ pureIn \in [amplitude : 0..MaxAmplitude]
    /\ pureOut = <<>>

ColorApply ==
    /\ variant = "color" /\ mainPc = "in"
    /\ pureOut' = calculate_color(pureIn.amplitude)
    /\ mainPc' = "out"
    /\ UNCHANGED <<cfgVars, pureIn, cycle, wakeRunning, running, audio_event, audio_data, strip,
                   shown, stream, mainI, cbPc, cbI, led_colors, ledPc, ledI,
                   ledChunk, brightness, ledError, nextId, status, renders,
                   lastSink, woke, early>>

ColorNext == ColorApply

ColorSpec == ColorInit /\ [][ColorNext]_vars

---------------------------------------------------------------------------
(* get_decibel_level alone.  A constant chunk of amplitude p_ref * 10^e   *)
(* has rms = p_ref * 10^e, so 20 * log10(rms / p_ref) = 20 * e.  A chunk   *)
(* is all-zero ("zero"), has nonzero samples whose squares underflow to    *)
(* an RMS of 0 ("underflow"), or is a constant chunk ("constant").         *)

DecibelOf(e) == 20 * e

DbChunk(kind, e) ==
    [id |-> 1, silent |-> kind = "zero", rms0 |-> kind # "constant",
     db |-> IF kind = "constant" THEN DecibelOf(e) ELSE 0]

DbInit ==
    /\ variant = "db"
    /\ min_db \in {10 * m : m \in 0..MaxExp}
    /\ max_db = MainMaxDb
    /\ SENSITIVITY = 200
    /\ PipeInit
    /\ mainPc = "in"
    /\ pureIn \in [kind : {"zero", "underflow", "constant"},
                   e1 : -1..MaxExp, e2 : -1..MaxExp]
    /\ pureOut = <<>>

(* get_decibel_level applied to the first chunk and to a constant chunk *)
DbApply ==
    /\ variant = "db" /\ mainPc = "in"
    /\ pureOut' = <<get_decibel_level(DbChunk(pureIn.kind, pureIn.e1)),
                    get_decibel_level(DbChunk("constant", pureIn.e2))>>
    /\ mainPc' = "out"
    /\ UNCHANGED <<cfgVars, pureIn, cycle, wakeRunning, running, audio_event, audio_data, strip,
                   shown, stream, mainI, cbPc, cbI, led_colors, ledPc, ledI,
                   ledChunk, brightness, ledError, nextId, status, renders,
                   lastSink, woke, early>>

DbNext == DbApply

DbSpec == DbInit /\ [][DbNext]_vars

---------------------------------------------------------------------------
(* Properties *)

(* run()'s KeyboardInterrupt handler has blanked and shown the strip *)
StopHandled == variant = "class" /\ ~running /\ mainPc \in {"exiting", "returned"}

(* C1: once run()'s stop path has blanked the strip and called show(), the *)
(* LED thread makes no further sink call: the blanking show() stays the    *)
(* last sink call and the committed frame is all black.                    *)
C1_NoSinkAfterStop ==
    StopHandled => lastSink = Sink("main", "show") /\ AllBlack(shown)

(* C2: of the chunks whose callback completed before the LED thread first  *)
(* returned from audio_event.wait(), only the newest can ever be rendered. *)
C2_Coalescing ==
    \A c \in early : (\E d \in early : d > c) => renders[c] = 0

C2_Witness ==
    \E c \in early : \E d \in early : d > c /\ renders[d] > 0

(* C3: no chunk is rendered and committed more than once. *)
C3_RenderedAtMostOnce ==
    \A c \in ChunkIds : renders[c] <= 1

PipelineLeft ==
    \/ ~running
    \/ mainPc \notin {"thread", "sleep"}
    \/ ledPc = "raised"

(* The slot holds a chunk that no committed frame was built from, while   *)
(* the pipeline runs and the LED thread is alive.                          *)
Pending ==
    /\ variant = "class"
    /\ audio_data.id # 0
    /\ renders[audio_data.id] = 0
    /\ ~PipelineLeft

(* C4: while the pipeline runs and the LED thread is alive and scheduled,  *)
(* a chunk stored in the slot is overwritten or eventually committed, and  *)
(* the chunk left in the slot when deliveries end is eventually committed: *)
(* whenever the slot's chunk is unrendered, a state follows where the      *)
(* slot's chunk (that one or a newer one) has been committed.              *)
C4_LatestEventuallyRendered == Pending ~> ~Pending

C4_Witness ==
    /\ variant = "class" /\ running /\ mainPc = "sleep"
    /\ nextId > MaxChunks /\ cbPc = "idle"
    /\ audio_data.id = MaxChunks
    /\ renders[MaxChunks] > 0

(* C5: when the run routine has returned, the last sink call was the       *)
(* show() of the blanking and the committed frame is all black.            *)
C5_BlankedOnEveryExit ==
    mainPc = "returned" => lastSink = Sink("main", "show") /\ AllBlack(shown)

(* C6: a callback with a non-empty status changes neither the slot, the    *)
(* event, the running flag nor the strip, starts no render and leaves the  *)
(* stream and the threads as they are; its chunk is never rendered.        *)
C6_StatusChunkDropped ==
    /\ [](\A c \in status : audio_data.id # c /\ ledChunk.id # c /\ renders[c] = 0)
    /\ [][status' # status =>
            UNCHANGED <<audio_data, audio_event, running, strip, shown,
                        lastSink, led_colors, cbPc, cbI, stream, mainPc,
                        ledPc>>]_vars

C6_Witness ==
    \E d \in status : \E c \in ChunkIds :
        c > d /\ renders[c] > 0 /\ ledPc \in {"while", "wait"}

(* C7: a sink call that fails in update_leds does not end the LED thread. *)
C7_ConsumerSurvivesSinkFailure ==
    ledError = "SinkError" => ledPc \in {"while", "wait", "clear", "check",
                                         "len", "read", "pix"}

(* C8: an AudioVisualizer with min_db >= max_db is never constructed, and  *)
(* map_brightness never divides by zero.                                   *)
C8_BadConfigRejected ==
    (variant = "map" /\ mainPc # "new") =>
        pureIn.min_db < pureIn.max_db /\ mainPc # "ZeroDivisionError"

(* C9: for min_db < max_db, map_brightness is an integer in 0..255, is    *)
(* non-decreasing, is 0 at and below min_db and 255 at and above max_db.   *)
C9_BrightnessPolicy ==
    (variant = "map" /\ mainPc = "mapped" /\ min_db < max_db) =>
        /\ pureOut[1] \in 0..FullBrightness
        /\ pureIn.x <= pureIn.y => pureOut[1] <= pureOut[2]
        /\ pureIn.x <= min_db => pureOut[1] = 0
        /\ pureIn.x >= max_db => pureOut[1] = FullBrightness

C9_Witness ==
    /\ variant = "map" /\ mainPc = "mapped"
    /\ min_db < pureIn.x /\ pureIn.x < pureIn.y /\ pureIn.y = max_db
    /\ 0 < pureOut[1] /\ pureOut[1] < pureOut[2]

(* C10: calculate_color at the band edges 0, S/3, 2S/3 and S, and the      *)
(* channels held fixed inside each band.                                    *)
C10_GradientBands ==
    (variant = "color" /\ mainPc = "out") =>
        LET a == pureIn.amplitude
            S == SENSITIVITY
            r == pureOut[1]
            g == pureOut[2]
            b == pureOut[3]
        IN  /\ a = 0 => pureOut = <<0, 0, 255>>
            /\ 3 * a = S => pureOut = <<0, 255, 0>>
            /\ 3 * a = 2 * S => pureOut = <<255, 255, 0>>
            /\ a = S => pureOut = <<255, 0, 0>>
            /\ 3 * a < S => r = 0 /\ g + b = 255
            /\ (S <= 3 * a /\ 3 * a < 2 * S) => g = 255 /\ b = 0
            /\ 2 * S <= 3 * a => r = 255 /\ b = 0

C10_Witness ==
    /\ variant = "color" /\ mainPc = "out"
    /\ pureIn.amplitude = SENSITIVITY
    /\ pureOut = <<255, 0, 0>>

(* C11: every channel calculate_color returns lies in 0..255, also for     *)
(* amplitudes above SENSITIVITY.                                            *)
C11_ChannelsInRange ==
    (variant = "color" /\ mainPc = "out") =>
        \A k \in 1..3 : pureOut[k] \in 0..FullBrightness

(* C12: get_decibel_level returns exactly min_db for an all-zero chunk   *)
(* and whenever the RMS is zero, and never returns less than min_db.       *)
C12_LoudnessFloor ==
    (variant = "db" /\ mainPc = "out") =>
        /\ pureOut[1] >= min_db
        /\ pureOut[2] >= min_db
        /\ pureIn.kind \in {"zero", "underflow"} => pureOut[1] = min_db

C12_Witness ==
    /\ variant = "db" /\ mainPc = "out"
    /\ pureIn.kind = "zero" /\ min_db > 0
    /\ pureOut[1] = min_db
    /\ DecibelOf(pureIn.e2) < min_db /\ pureOut[2] = min_db

BothConstant == variant = "db" /\ mainPc = "out" /\ pureIn.kind = "constant"

(* C13 as stated: for constant chunks of amplitudes 0 < a1 < a2 the        *)
(* result for a1 is strictly below the result for a2.                      *)
C13_StrictlyMonotonic ==
    (BothConstant /\ pureIn.e1 < pureIn.e2) => pureOut[1] < pureOut[2]

(* C13 amended: for constant chunks of amplitudes 0 < a1 < a2 the result  *)
(* for a1 is at most the result for a2; it is strictly below when the      *)
(* unclamped decibel value of a2 is above min_db, and both results are     *)
(* min_db otherwise.                                                       *)
C13_Monotonic ==
    (BothConstant /\ pureIn.e1 < pureIn.e2) =>
        /\ pureOut[1] <= pureOut[2]
        /\ DecibelOf(pureIn.e2) > min_db => pureOut[1] < pureOut[2]
        /\ DecibelOf(pureIn.e2) <= min_db =>
               pureOut[1] = min_db /\ pureOut[2] = min_db

C13_Witness ==
    /\ BothConstant /\ pureIn.e1 < pureIn.e2
    /\ DecibelOf(pureIn.e2) < min_db
    /\ pureOut[1] = pureOut[2]

(* run() has executed lines 154-155 and the process is still there *)
StopSignalled == variant = "class" /\ mainPc \in {"stop156", "blank", "exiting"}

(* C14: once the stop path has cleared self.running and set the event,    *)
(* the LED thread is never blocked in wait() and, while its sink calls     *)
(* return and the process lives, it reaches the end of update_leds.        *)
C14_ConsumerExitsOnStop ==
    /\ []((StopSignalled /\ ledPc = "wait") => audio_event)
    /\ StopSignalled ~> (ledPc \in {"none", "done", "raised"} \/ ~ProcessAlive)

C14_Witness ==
    /\ StopSignalled
    /\ nextId = 1 /\ woke
    /\ ledPc = "done"

(* C15: no chunk is delivered to audio_callback before the LED thread     *)
(* has been started.                                                       *)
C15_ConsumerBeforeChunks ==
    (variant = "class" /\ nextId > 1) => ledPc # "none"

Uniform(f) == \A p \in Pixels : \A q \in Pixels : f[p] = f[q]

(* C17: every frame pushed by show(), from the LED thread or from the     *)
(* shutdown blanking, has the same colour in all pixels.                   *)
C17_UniformCommittedFrames == Uniform(shown)

IsPrefix(s, t) ==
    /\ Len(s) <= Len(t)
    /\ \A k \in 1..Len(s) : s[k] = t[k]

(* The sink calls of one update_leds cycle for the chunk it read *)
ClassCycle ==
    [k \in 1..(NumPixels + 1) |->
        IF k <= NumPixels
        THEN SetPixelCall(k - 1,
                 <<0, map_brightness(get_decibel_level(ledChunk)), 0>>)
        ELSE ShowCall]

(* The sink calls of one set_leds call for the colours of led_colors *)
ScriptCycle ==
    [k \in 1..(Len(led_colors) + 1) |->
        IF k <= Len(led_colors)
        THEN SetPixelCall(k - 1, <<led_colors[k][2], led_colors[k][1],
                                   led_colors[k][3]>>)
        ELSE ShowCall]

(* C16: a render cycle computes the brightness of the chunk it read before *)
(* its first sink call, then calls setPixelColor for the indices 0, 1, ... *)
(* numPixels-1 once each with that brightness and ends with one show().    *)
(* The script callback builds LED_COUNT colours from one amplitude, writes *)
(* them in order and commits once for each callback with empty status.     *)
C16_RenderCycleShape ==
    /\ variant = "class" =>
        /\ IsPrefix(cycle, ClassCycle)
        /\ ledPc = "pix" =>
            /\ brightness = map_brightness(get_decibel_level(ledChunk))
            /\ Len(cycle) = ledI
            /\ ledI <= NumPixels
    /\ variant = "script" =>
        /\ IsPrefix(cycle, ScriptCycle)
        /\ cbPc = "s_pix" =>
            /\ Len(led_colors) = NumPixels
            /\ \E a \in ScriptAmplitudes :
                   led_colors = [p \in Pixels |-> calculate_color(a)]
            /\ Len(cycle) = cbI
        /\ \A c \in ChunkIds :
            /\ renders[c] <= 1
            /\ (c < nextId /\ c \notin status /\ (cbPc = "idle" \/ c < nextId - 1))
                   => renders[c] = 1

C16_Witness ==
    /\ variant = "class"
    /\ ledChunk.id # 0 /\ brightness > 0
    /\ cycle = ClassCycle

(* C18: the LED thread makes no sink call while the slot is empty; its    *)
(* wait() returns with an empty slot only after self.running was cleared;  *)
(* and a wake that happens after self.running was cleared never reaches    *)
(* the render part of the loop.                                            *)
C18_EmptySlotWake ==
    /\ []((ledPc \in {"read", "pix"} \/ lastSink.by = "led") => audio_data.id # 0)
    /\ [](ledPc \in {"len", "read", "pix"} => wakeRunning)
    /\ [][(ledPc = "wait" /\ ledPc' = "clear" /\ audio_data.id = 0)
              => ~running]_vars

C18_Witness ==
    /\ variant = "class"
    /\ audio_data.id = 0 /\ woke /\ ~wakeRunning
    /\ ledPc = "done"
    /\ lastSink.by # "led"

(* C19: chunks are numbered in delivery order.  Every read of the slot    *)
(* takes the chunk that is in the slot, which is never older than the one  *)
(* read before; a committed frame is never derived from a chunk older than *)
(* one already rendered; and a chunk that was overwritten in the slot      *)
(* before it was read is never rendered afterwards.                        *)
C19_FreshnessMonotone ==
    /\ [][ledChunk' # ledChunk
              => ledChunk' = audio_data /\ ledChunk'.id >= ledChunk.id]_vars
    /\ [][\A c \in ChunkIds :
              renders'[c] > renders[c]
                  => \A d \in ChunkIds : renders[d] > 0 => d <= c]_vars
    /\ [][\A c \in ChunkIds :
              (audio_data.id > c /\ ledChunk.id # c /\ renders[c] = 0)
                  => renders'[c] = 0]_vars

C19_Witness ==
    /\ variant = "class"
    /\ \E c, d \in ChunkIds :
          /\ c < d /\ c \notin status /\ d = audio_data.id
          /\ renders[c] = 0 /\ ledChunk.id # c
          /\ renders[d] > 0

===========================================================================
